---- MODULE Spec2Model ----
(***************************************************************************)
(* The cluster-score report pipeline of ea-forum-clusters:                 *)
(*   - the Aggregator, summarize_cluster_scores.py: main() connects to the *)
(*     data source, prints console summaries, and writes the level-summary *)
(*     and the cluster-summary CSV artifacts;                              *)
(*   - the Viewer, cluster_dashboard_app.py: main() checks that both       *)
(*     artifacts exist and loads them.                                     *)
(* SQL is modelled by what PostgreSQL computes for the query text: NULLs   *)
(* are skipped by SUM/AVG/STDDEV, SUM over no rows is NULL, GROUP BY keys  *)
(* are the listed expressions, and rows that tie on every ORDER BY key     *)
(* come back in any order.                                                 *)
(***************************************************************************)
EXTENDS Integers, Sequences, FiniteSets, TLC

VARIABLES
    table,                  \* rows of fellowship_mvp
    columns,                \* columns of fellowship_mvp the schema has
    levels,                 \* main: levels (from CLUSTER_LEVELS)
    classification_filter,  \* main: classification_filter (EA_CLASSIFICATION_FILTER)
    reachable,              \* whether psycopg2.connect succeeds
    flaky,                  \* whether a query or a file operation may raise
    concurrent,             \* whether the Viewer may run while the Aggregator runs
    refilter,               \* whether EA_CLASSIFICATION_FILTER is changed between runs
    pc,                     \* the Aggregator's position in main
    conn,                   \* "none", "open" or "closed"
    opened,                 \* connections opened by the current run
    raised,                 \* the exception propagating out of the try block, or "none"
    i,                      \* index into levels of the loop at pc
    j,                      \* index into the classification values (breakdown pass)
    rows,                   \* rows / all_rows of the export function at pc
    values,                 \* main: values, from classification_values
    fs,                     \* the two artifact files on disk
    written,                \* rows given to the open file's writer so far
    console,                \* what the run has printed
    run,                    \* number of the current Aggregator run
    status,                 \* exit status of each finished run
    fs0,                    \* the artifact files as they were when the run started
    vpc,                    \* the Viewer's position in main
    df,                     \* the Viewer's level_df and cluster_df
    vi,                     \* index into available_levels of the Viewer's loop
    page,                   \* what the Viewer has rendered
    drill                   \* the last call of fetch_cluster_posts and its outcome

vars == <<table, columns, levels, classification_filter, reachable, flaky,
          concurrent, refilter, pc, conn, opened, raised, i, j, rows, values, fs,
          written, console, run, status, fs0, vpc, df, vi, page, drill>>

----------------------------------------------------------------------------
(* Bounds of the model *)

MaxPosts == 2
MaxLevels == 2
MaxRuns == 2
FloatDigits == 2

----------------------------------------------------------------------------
(* Values: a nullable value is <<>> (NULL / None) or <<v>> *)

Null == <<>>
Some(v) == <<v>>
Val(o) == o[1]

DEFAULT_LEVELS == <<5, 12, 30, 60>>

\* the levels the bounded runs configure: the first two default levels
LevelValues == {DEFAULT_LEVELS[1], DEFAULT_LEVELS[2]}

IdCol(level) == <<"ea_cluster", level>>
NameCol(level) == <<"ea_cluster_name", level>>
ClassCol == <<"ea_classification", 0>>

AllColumns == {IdCol(l) : l \in LevelValues} \cup {NameCol(l) : l \in LevelValues}
                \cup {ClassCol}

\* a row of fellowship_mvp: cid[L], cname[L] are ea_cluster_L, ea_cluster_L_name
Post(c5, n5, c12, cls, base, score) ==
    [cid   |-> (5 :> c5 @@ 12 :> c12),
     cname |-> (5 :> n5 @@ 12 :> Null),
     cls   |-> cls, base |-> base, score |-> score]

PostKinds ==
    << Post(Some(1), Some("A"), Some(1), Some("EA_META"),   Some(10), Some(1)),
       Post(Some(1), Some("A"), Some(1), Some("EA_PROPER"), Some(20), Some(2)),
       Post(Some(2), Some("B"), Some(1), Some("EA_PROPER"), Some(30), Some(3)),
       Post(Some(1), Some("B"), Null,    Some("OTHER"),     Null,     Null),
       Post(Some(2), Null,      Some(1), Null,              Some(10), Null),
       Post(Null,    Null,      Some(1), Some("EA_META"),   Some(20), Some(2)) >>

\* the three posts of the worked example: level-5 clusters 1, 1, 2
ExampleTable == <<PostKinds[1], PostKinds[2], PostKinds[3]>>

\* tables of at most n rows over the first k kinds of post, one per multiset
Tables(n, k) ==
    UNION { { [x \in 1..m |-> PostKinds[f[x]]] :
                f \in { g \in [1..m -> 1..k] :
                          \A a, b \in 1..m : a <= b => g[a] <= g[b] } } :
            m \in 0..n }

----------------------------------------------------------------------------
(* Arithmetic *)

RECURSIVE SumSeq(_)
SumSeq(s) == IF s = <<>> THEN 0 ELSE Head(s) + SumSeq(Tail(s))

RECURSIVE MapSq(_)
MapSq(s) == IF s = <<>> THEN <<>> ELSE <<Head(s) * Head(s)>> \o MapSq(Tail(s))

RECURSIVE Pow10(_)
Pow10(n) == IF n = 0 THEN 1 ELSE 10 * Pow10(n - 1)

\* a float is kept to FloatDigits decimals, as an integer count of that unit
FloatScale == Pow10(FloatDigits)

\* n / d rounded to the nearest unit (d > 0)
RoundDiv(n, d) == (2 * n + d) \div (2 * d)

RECURSIVE IsqrtIter(_, _, _)
IsqrtIter(n, lo, hi) ==
    IF lo >= hi THEN lo
    ELSE LET mid == (lo + hi + 1) \div 2
         IN IF mid * mid <= n THEN IsqrtIter(n, mid, hi)
                              ELSE IsqrtIter(n, lo, mid - 1)

\* the integer square root, for n < 2^30
Isqrt(n) == IsqrtIter(n, 0, 32767)

----------------------------------------------------------------------------
(* SQL aggregates over a sequence of rows *)

RECURSIVE NonNull(_)
NonNull(s) ==
    IF s = <<>> THEN <<>>
    ELSE (IF Head(s) = Null THEN <<>> ELSE <<Val(Head(s))>>) \o NonNull(Tail(s))

RECURSIVE Column(_, _)
Column(ps, f) == IF ps = <<>> THEN <<>> ELSE <<Head(ps)[f]>> \o Column(Tail(ps), f)

\* COUNT(*)::int
SqlCount(ps) == Some(Len(ps))

\* SUM(CASE WHEN ea_classification = label THEN 1 ELSE 0 END)::int
SqlSumCase(ps, label) ==
    IF ps = <<>> THEN Null
    ELSE Some(Len(SelectSeq(ps, LAMBDA p : p.cls = Some(label))))

\* float(AVG(f)), None when AVG is NULL
SqlAvg(ps, f) ==
    LET xs == NonNull(Column(ps, f))
    IN IF xs = <<>> THEN Null
       ELSE Some(RoundDiv(SumSeq(xs) * FloatScale, Len(xs)))

\* float(STDDEV(f)), the sample standard deviation, None when STDDEV is NULL
SqlStddev(ps, f) ==
    LET xs == NonNull(Column(ps, f))
        n == Len(xs)
        v == n * SumSeq(MapSq(xs)) - SumSeq(xs) * SumSeq(xs)
    IN IF n < 2 THEN Null
       ELSE Some(Isqrt((v * FloatScale * FloatScale) \div (n * (n - 1))))

ColumnExists(column) == column \in columns

----------------------------------------------------------------------------
(* The queries *)

Range(s) == {s[x] : x \in 1..Len(s)}

\* the rows of one level, in the order they have in the file
RowsOfLevel(rs, level) == SelectSeq(rs, LAMBDA r : r.level = level)

\* WHERE {id_col} IS NOT NULL
Clustered(level) == SelectSeq(table, LAMBDA p : p.cid[level] # Null)

\* select_name: COALESCE({name_col}, 'Cluster ' || {id_col}::text) when the name
\* column exists, else 'Cluster ' || {id_col}::text
ClusterName(p, level) ==
    IF ColumnExists(NameCol(level)) /\ p.cname[level] # Null
    THEN Val(p.cname[level])
    ELSE "Cluster " \o ToString(Val(p.cid[level]))

\* GROUP BY {id_col}, cluster_name
GroupKey(p, level) == <<Val(p.cid[level]), ClusterName(p, level)>>

GroupKeys(ps, level) == {GroupKey(p, level) : p \in Range(ps)}

Group(ps, level, key) == SelectSeq(ps, LAMBDA p : GroupKey(p, level) = key)

\* ORDER BY post_count DESC, cluster_id ASC: whether r1 may come before r2
Before(r1, r2) ==
    \/ Val(r1.post_count) > Val(r2.post_count)
    \/ /\ Val(r1.post_count) = Val(r2.post_count)
       /\ Val(r1.cluster_id) <= Val(r2.cluster_id)

\* the orders in which a result set can come back under that ORDER BY
OrderBy(S) ==
    { s \in [1..Cardinality(S) -> S] :
        /\ \A a, b \in 1..Cardinality(S) : a # b => s[a] # s[b]
        /\ \A a, b \in 1..Cardinality(S) : a < b => Before(s[a], s[b]) }

\* the row the query of export_level_overview_csv returns for a level
LevelQueryRow(level) ==
    LET ps == Clustered(level)
    IN [post_count        |-> SqlCount(ps),
        meta_posts        |-> SqlSumCase(ps, "EA_META"),
        proper_posts      |-> SqlSumCase(ps, "EA_PROPER"),
        avg_base_score    |-> SqlAvg(ps, "base"),
        stddev_base_score |-> SqlStddev(ps, "base"),
        avg_score         |-> SqlAvg(ps, "score"),
        stddev_score      |-> SqlStddev(ps, "score")]

\* the result set of the query of export_cluster_details_csv for a level
ClusterQueryRows(level) ==
    LET ps == Clustered(level)
    IN { LET g == Group(ps, level, key)
         IN [cluster_id        |-> Some(key[1]),
             cluster_name      |-> Some(key[2]),
             post_count        |-> SqlCount(g),
             meta_posts        |-> SqlSumCase(g, "EA_META"),
             proper_posts      |-> SqlSumCase(g, "EA_PROPER"),
             avg_base_score    |-> SqlAvg(g, "base"),
             stddev_base_score |-> SqlStddev(g, "base"),
             avg_score         |-> SqlAvg(g, "score"),
             stddev_score      |-> SqlStddev(g, "score")]
         : key \in GroupKeys(ps, level) }

\* the population of summarize_level: where_clauses joined by AND
Population(level, filter) ==
    IF filter # Null /\ ColumnExists(ClassCol)
    THEN SelectSeq(Clustered(level), LAMBDA p : p.cls = filter)
    ELSE Clustered(level)

\* the result set of the query of summarize_level
SummaryQueryRows(level, filter) ==
    LET ps == Population(level, filter)
    IN { LET g == Group(ps, level, key)
         IN [cluster_id        |-> Some(key[1]),
             cluster_name      |-> Some(key[2]),
             post_count        |-> SqlCount(g),
             avg_base_score    |-> SqlAvg(g, "base"),
             stddev_base_score |-> SqlStddev(g, "base")]
         : key \in GroupKeys(ps, level) }

----------------------------------------------------------------------------
(* Console output *)

\* f"{float(x):.2f}" if x is not None else "N/A": hundredths, or Null for N/A
Fmt2(x) == IF x = Null THEN Null ELSE Some(RoundDiv(Val(x) * 100, FloatScale))

Line(name, posts, ab, sb, as, ss) ==
    [name |-> name, posts |-> posts, avg_base |-> Fmt2(ab), std_base |-> Fmt2(sb),
     avg_score |-> Fmt2(as), std_score |-> Fmt2(ss)]

\* the lines summarize_level prints for a result set; the console keeps the
\* lines of a section without the order the query returned them in
SummaryLines(res) ==
    { Line(Val(r.cluster_name), Val(r.post_count), r.avg_base_score,
           r.stddev_base_score, Null, Null) : r \in res }

Section(kind, level, filter, lines) ==
    [kind |-> kind, level |-> level, filter |-> filter, lines |-> lines]

\* the lines of the "EA Meta vs Proper" summary: GROUP BY ea_classification over
\* the rows WHERE ea_classification IN ('EA_META','EA_PROPER'), ORDER BY it
TopLines(labels) ==
    { Line(label[2], Len(SelectSeq(table, LAMBDA p : p.cls = Some(label[1]))),
           SqlAvg(SelectSeq(table, LAMBDA p : p.cls = Some(label[1])), "base"),
           SqlStddev(SelectSeq(table, LAMBDA p : p.cls = Some(label[1])), "base"),
           SqlAvg(SelectSeq(table, LAMBDA p : p.cls = Some(label[1])), "score"),
           SqlStddev(SelectSeq(table, LAMBDA p : p.cls = Some(label[1])), "score"))
      : label \in { l \in Range(labels) : \E p \in Range(table) : p.cls = Some(l[1]) } }

label_map == << <<"EA_META", "EA Meta">>, <<"EA_PROPER", "EA Proper">> >>

\* classification_values: SELECT DISTINCT ... IS NOT NULL ORDER BY ea_classification
ClassificationOrder == <<"EA_META", "EA_PROPER", "OTHER">>

ClassificationValues ==
    IF ~ColumnExists(ClassCol) THEN <<>>
    ELSE SelectSeq(ClassificationOrder,
                   LAMBDA c : \E p \in Range(table) : p.cls = Some(c))

----------------------------------------------------------------------------
(* The artifact files *)

Paths == {"level_csv", "cluster_csv"}

\* a file on disk: whether it exists, whether the header line is in it, its rows
File(header, rs) == [exists |-> TRUE, header |-> header, rows |-> rs]
FileAbsent == [exists |-> FALSE, header |-> FALSE, rows |-> <<>>]
FileTruncated == File(FALSE, <<>>)

\* artifacts left by an earlier run against other data
OldFiles ==
    [level_csv |->
        File(TRUE, << [level |-> 30, post_count |-> Some(7), meta_posts |-> Some(3),
                       proper_posts |-> Some(4), avg_base_score |-> Null,
                       stddev_base_score |-> Null, avg_score |-> Null,
                       stddev_score |-> Null] >>),
     cluster_csv |->
        File(TRUE, << [level |-> 30, cluster_id |-> Some(9),
                       cluster_name |-> Some("Old"), post_count |-> Some(7),
                       meta_posts |-> Some(3), proper_posts |-> Some(4),
                       avg_base_score |-> Some(1500), stddev_base_score |-> Some(500),
                       avg_score |-> Null, stddev_score |-> Null] >>)]

NoFiles == [p \in Paths |-> FileAbsent]

\* the path an export function writes
PathOf(e) == IF e = "level" THEN "level_csv" ELSE "cluster_csv"

----------------------------------------------------------------------------
(* The Aggregator: main of summarize_cluster_scores.py *)

env == <<table, columns, levels, classification_filter, reachable, concurrent,
         refilter>>
viewer == <<vpc, df, vi, page, drill>>

\* whether the operation at pc returns (TRUE) or raises (FALSE)
Outcomes == IF flaky THEN {TRUE, FALSE} ELSE {TRUE}

\* an exception leaves the try block: the frames' locals are gone. It is a
\* fault of the data source or the disk, which is transient, or the error of
\* a query that names a column the table does not have
Raise(fault) ==
    /\ pc' = "finally"
    /\ raised' = IF fault THEN "fault" ELSE "undefined_column"
    /\ flaky' = (flaky /\ ~fault)
    /\ i' = 0 /\ j' = 0 /\ rows' = <<>> /\ values' = <<>> /\ written' = 0

\* where a loop over levels starts, or what follows it when levels is empty
LoopOrElse(loop, after) == IF Len(levels) >= 1 THEN loop ELSE after

\* Connect with the connection error caught and the exports run with no rows
ConnectSwallowsError ==
    /\ pc = "start"
    /\ IF reachable
       THEN /\ conn' = "open"
            /\ opened' = opened + 1
            /\ pc' = "top"
       ELSE /\ pc' = "level_open"
            /\ UNCHANGED <<conn, opened>>
    /\ UNCHANGED <<env, flaky, viewer, raised, i, j, rows, values, fs, written,
                   console, run, status, fs0>>

\* conn = connect_db(), outside the try block
Connect ==
    /\ pc = "start"
    /\ IF reachable
       THEN /\ conn' = "open"
            /\ opened' = opened + 1
            /\ pc' = "top"
            /\ UNCHANGED status
       ELSE /\ pc' = "exit"
            /\ status' = Append(status, "error")
            /\ UNCHANGED <<conn, opened>>
    /\ UNCHANGED <<env, flaky, viewer, raised, i, j, rows, values, fs, written,
                   console, run, fs0>>

\* the "EA Meta vs Proper" summary, printed when ea_classification exists
TopSummary ==
    /\ pc = "top"
    /\ \E ok \in Outcomes :
        IF ok
        THEN /\ console' = IF ColumnExists(ClassCol)
                           THEN Append(console, Section("top", 0, Null, TopLines(label_map)))
                           ELSE console
             /\ pc' = LoopOrElse("summarize", "level_open")
             /\ i' = IF Len(levels) >= 1 THEN 1 ELSE 0
             /\ UNCHANGED <<flaky, raised, j, rows, values, written>>
        ELSE Raise(TRUE) /\ UNCHANGED console
    /\ UNCHANGED <<env, viewer, conn, opened, fs, run, status, fs0>>

\* what summarize_level(conn, level, filter) prints
SummarizeLevel(level, filter) ==
    IF ~ColumnExists(IdCol(level))
    THEN Section("skip", level, filter, {})
    ELSE Section("level", level, filter, SummaryLines(SummaryQueryRows(level, filter)))

\* for level in levels: summarize_level(conn, level, classification_filter)
Summarize ==
    /\ pc = "summarize"
    /\ \E ok \in Outcomes :
        IF ok
        THEN /\ console' = Append(console, SummarizeLevel(levels[i], classification_filter))
             /\ IF i < Len(levels)
                THEN i' = i + 1 /\ pc' = pc
                ELSE i' = 1 /\ pc' = "level_query"
             /\ UNCHANGED <<flaky, raised, j, rows, values, written>>
        ELSE Raise(TRUE) /\ UNCHANGED console
    /\ UNCHANGED <<env, viewer, conn, opened, fs, run, status, fs0>>

\* LevelQuery without the column_exists test: the query names the missing column
LevelQueryNoProbe ==
    /\ pc = "level_query"
    /\ LET level == levels[i]
       IN \E ok \in Outcomes :
            IF ~ok THEN Raise(TRUE)
            ELSE IF ~ColumnExists(IdCol(level)) \/ ~ColumnExists(ClassCol)
            THEN Raise(FALSE)
            ELSE /\ rows' = Append(rows, [level |-> level] @@ LevelQueryRow(level))
                 /\ IF i < Len(levels)
                    THEN i' = i + 1 /\ pc' = pc
                    ELSE i' = 0 /\ pc' = "level_open"
                 /\ UNCHANGED <<flaky, raised, j, values, written>>
    /\ UNCHANGED <<env, viewer, conn, opened, fs, console, run, status, fs0>>

\* the loop body of export_level_overview_csv
LevelQuery ==
    /\ pc = "level_query"
    /\ LET level == levels[i]
           next == /\ IF i < Len(levels)
                      THEN i' = i + 1 /\ pc' = pc
                      ELSE i' = 0 /\ pc' = "level_open"
                   /\ UNCHANGED <<flaky, raised, j, values, written>>
       IN \E ok \in Outcomes :
            IF ~ok THEN Raise(TRUE)
            ELSE IF ~ColumnExists(IdCol(level)) THEN next /\ UNCHANGED rows
            ELSE IF ~ColumnExists(ClassCol) THEN Raise(FALSE)
            ELSE /\ rows' = Append(rows, [level |-> level] @@ LevelQueryRow(level))
                 /\ next
    /\ UNCHANGED <<env, viewer, conn, opened, fs, console, run, status, fs0>>

\* the loop body of export_cluster_details_csv
ClusterQuery ==
    /\ pc = "cluster_query"
    /\ LET level == levels[i]
           next == /\ IF i < Len(levels)
                      THEN i' = i + 1 /\ pc' = pc
                      ELSE i' = 0 /\ pc' = "cluster_open"
                   /\ UNCHANGED <<flaky, raised, j, values, written>>
       IN \E ok \in Outcomes :
            IF ~ok THEN Raise(TRUE)
            ELSE IF ~ColumnExists(IdCol(level)) THEN next /\ UNCHANGED rows
            ELSE IF ~ColumnExists(ClassCol) THEN Raise(FALSE)
            ELSE /\ \E res \in OrderBy(ClusterQueryRows(level)) :
                      rows' = rows \o [x \in 1..Len(res) |-> [level |-> level] @@ res[x]]
                 /\ next
    /\ UNCHANGED <<env, viewer, conn, opened, fs, console, run, status, fs0>>

\* out_path.parent.mkdir(...); out_path.open("w", ...): the file is truncated;
\* w.writeheader() goes to the writer's buffer
OpenFile(e) ==
    /\ pc = e \o "_open"
    /\ \E ok \in Outcomes :
        IF ok
        THEN /\ fs' = [fs EXCEPT ![PathOf(e)] = FileTruncated]
             /\ written' = 0
             /\ pc' = e \o "_write"
             /\ UNCHANGED <<flaky, raised, i, j, rows, values>>
        ELSE Raise(TRUE) /\ UNCHANGED fs
    /\ UNCHANGED <<env, viewer, conn, opened, console, run, status, fs0>>

\* w.writerow(row); when it raises, the with block closes the file, which
\* flushes what was written
WriteRow(e) ==
    /\ pc = e \o "_write"
    /\ written < Len(rows)
    /\ \E ok \in Outcomes :
        IF ok
        THEN /\ written' = written + 1
             /\ UNCHANGED <<flaky, pc, raised, i, j, rows, values, fs>>
        ELSE /\ fs' = [fs EXCEPT ![PathOf(e)] = File(TRUE, SubSeq(rows, 1, written))]
             /\ Raise(TRUE)
    /\ UNCHANGED <<env, viewer, conn, opened, console, run, status, fs0>>

\* the writer's buffer is written through when it fills: what was written so
\* far reaches the disk
Flush(e) ==
    /\ pc = e \o "_write"
    /\ fs[PathOf(e)] # File(TRUE, SubSeq(rows, 1, written))
    /\ fs' = [fs EXCEPT ![PathOf(e)] = File(TRUE, SubSeq(rows, 1, written))]
    /\ UNCHANGED <<env, flaky, viewer, pc, conn, opened, raised, i, j, rows, values,
                   written, console, run, status, fs0>>

\* the end of the with block: the file is closed with every row in it
CloseFile(e) ==
    /\ pc = e \o "_write"
    /\ written = Len(rows)
    /\ fs' = [fs EXCEPT ![PathOf(e)] = File(TRUE, rows)]
    /\ rows' = <<>>
    /\ written' = 0
    /\ IF e = "level"
       THEN /\ pc' = LoopOrElse("cluster_query", "cluster_open")
            /\ i' = IF Len(levels) >= 1 THEN 1 ELSE 0
            /\ UNCHANGED console
       ELSE /\ pc' = "classification_values"
            /\ i' = 0
            /\ console' = Append(console, Section("exported", 0, Null, {}))
    /\ UNCHANGED <<env, flaky, viewer, conn, opened, raised, j, values, run, status, fs0>>

\* has_class, values = classification_values(conn), and the test that follows
ClassificationValuesStep ==
    /\ pc = "classification_values"
    /\ \E ok \in Outcomes :
        IF ok
        THEN /\ values' = ClassificationValues
             /\ IF /\ ColumnExists(ClassCol)
                   /\ classification_filter = Null
                   /\ ClassificationValues # <<>>
                   /\ levels # <<>>
                THEN pc' = "breakdown" /\ i' = 1 /\ j' = 1
                ELSE pc' = "finally" /\ i' = 0 /\ j' = 0
             /\ UNCHANGED <<flaky, raised, rows, written>>
        ELSE Raise(TRUE)
    /\ UNCHANGED <<env, viewer, conn, opened, fs, console, run, status, fs0>>

\* for cls in values: for level in levels: summarize_level(conn, level, cls)
Breakdown ==
    /\ pc = "breakdown"
    /\ \E ok \in Outcomes :
        IF ok
        THEN /\ console' = Append(console, SummarizeLevel(levels[i], Some(values[j])))
             /\ IF i < Len(levels)
                THEN i' = i + 1 /\ j' = j /\ pc' = pc
                ELSE IF j < Len(values)
                     THEN i' = 1 /\ j' = j + 1 /\ pc' = pc
                     ELSE i' = 0 /\ j' = 0 /\ pc' = "finally"
             /\ UNCHANGED <<flaky, raised, rows, values, written>>
        ELSE Raise(TRUE) /\ UNCHANGED console
    /\ UNCHANGED <<env, viewer, conn, opened, fs, run, status, fs0>>

\* Finally with conn.close() at the end of the try block instead
FinallyClosesOnSuccessOnly ==
    /\ pc = "finally"
    /\ conn' = IF raised = "none" THEN "closed" ELSE conn
    /\ pc' = "exit"
    /\ status' = Append(status, IF raised = "none" THEN "ok" ELSE "error")
    /\ i' = 0 /\ j' = 0 /\ rows' = <<>> /\ values' = <<>> /\ written' = 0
    /\ UNCHANGED <<env, flaky, viewer, opened, raised, fs, console, run, fs0>>

\* finally: conn.close(), then the process exits
Finally ==
    /\ pc = "finally"
    /\ conn' = "closed"
    /\ pc' = "exit"
    /\ status' = Append(status, IF raised = "none" THEN "ok" ELSE "error")
    /\ i' = 0 /\ j' = 0 /\ rows' = <<>> /\ values' = <<>> /\ written' = 0
    /\ UNCHANGED <<env, flaky, viewer, opened, raised, fs, console, run, fs0>>

\* the values EA_CLASSIFICATION_FILTER takes
Filters == {Null, Some("EA_META"), Some("OTHER")}

\* the Aggregator is run again, against the same table and levels, with the
\* same filter or (refilter) another one; when the components run one after
\* the other, before the Viewer is started
Rerun ==
    /\ pc = "exit"
    /\ run < MaxRuns
    /\ concurrent \/ vpc = "off"
    /\ run' = run + 1
    /\ pc' = "start"
    /\ conn' = "none"
    /\ opened' = 0
    /\ raised' = "none"
    /\ console' = <<>>
    /\ fs0' = fs
    /\ classification_filter' \in IF refilter THEN Filters \ {classification_filter}
                                 ELSE {classification_filter}
    /\ UNCHANGED <<table, columns, levels, reachable, concurrent, refilter, flaky,
                   viewer, i, j, rows, values, fs, written, status>>

----------------------------------------------------------------------------
(* The Viewer: cluster_dashboard_app.py *)

NotLoaded == [state |-> "unloaded", rows |-> <<>>]

\* no call of fetch_cluster_posts yet
NoDrill == [level |-> 0, cluster_id |-> 0, cause |-> "none", conn |-> "none",
            result |-> "none", raised |-> FALSE]

\* pd.read_csv(path): a file of zero bytes raises EmptyDataError
ReadCsv(f) ==
    IF ~f.header THEN [state |-> "error", rows |-> <<>>]
    ELSE [state |-> "frame", rows |-> f.rows]

\* what keeps fetch_cluster_posts from its rows, or "ok"
Causes == {"no_url", "no_driver", "connect_fails", "query_fails", "ok"}

\* connect_db(): None without a URL or a driver, or when connecting raises
connect_db(cause) ==
    IF cause \in {"no_url", "no_driver", "connect_fails"} THEN "none" ELSE "open"

\* fetch_cluster_posts with no try/except around the query
FetchLetsQueryErrorOut(level, cluster_id, cause) ==
    LET found == IF IdCol(level) \in columns
                 THEN SelectSeq(table, LAMBDA p : p.cid[level] = Some(cluster_id))
                 ELSE <<>>
        fails == cause = "query_fails" \/ IdCol(level) \notin columns
    IN [level |-> level, cluster_id |-> cluster_id, cause |-> cause,
        conn |-> IF connect_db(cause) = "none" THEN "none"
                 ELSE IF fails THEN "open" ELSE "closed",
        result |-> IF connect_db(cause) = "none" \/ fails \/ found = <<>>
                   THEN "empty" ELSE "posts",
        raised |-> (connect_db(cause) # "none" /\ fails)]

\* fetch_cluster_posts(level, cluster_id): the query raises when it fails or
\* names a column the table does not have; the except branch closes the
\* connection and returns an empty frame
fetch_cluster_posts(level, cluster_id, cause) ==
    LET found == IF IdCol(level) \in columns
                 THEN SelectSeq(table, LAMBDA p : p.cid[level] = Some(cluster_id))
                 ELSE <<>>
        fails == cause = "query_fails" \/ IdCol(level) \notin columns
    IN [level |-> level, cluster_id |-> cluster_id, cause |-> cause,
        conn |-> IF connect_db(cause) = "none" THEN "none" ELSE "closed",
        result |-> IF connect_db(cause) = "none" \/ fails \/ found = <<>>
                   THEN "empty" ELSE "posts",
        raised |-> FALSE]

\* sorted(...) of a set of numbers
RECURSIVE Sorted(_)
Sorted(S) ==
    IF S = {} THEN <<>>
    ELSE LET m == CHOOSE x \in S : \A y \in S : x <= y
         IN <<m>> \o Sorted(S \ {m})

\* available_levels = sorted(cluster_df["level"].dropna().unique().tolist())
available_levels == Sorted({r.level : r \in Range(df["cluster_csv"].rows)})

\* int(r.get(...)) of the first level row: a blank cell is NaN and int(NaN)
\* raises ValueError
OverviewRaises(r) ==
    r.post_count = Null \/ r.meta_posts = Null \/ r.proper_posts = Null

\* float(display_df[c].max() or 0.0) for the two Int64 columns: the maximum of
\* a column with no value is pd.NA, whose truth value raises TypeError
TableRaises(d) ==
    \/ \A r \in Range(d) : r.avg_base_score = Null
    \/ \A r \in Range(d) : r.stddev_base_score = Null

ViewerMayRun == concurrent \/ pc = "exit"

\* the existence test with CLUSTER_CSV left out
ViewerStartChecksLevelOnly ==
    /\ vpc = "off"
    /\ ViewerMayRun
    /\ IF fs["level_csv"].exists
       THEN vpc' = "load_level" /\ page' = page
       ELSE vpc' = "stopped" /\ page' = {<<"error", 0>>}
    /\ UNCHANGED <<env, flaky, pc, conn, opened, raised, i, j, rows, values, fs, written,
                   console, run, status, fs0, df, vi, drill>>

\* if not LEVEL_CSV.exists() or not CLUSTER_CSV.exists(): st.error(...); st.stop()
ViewerStart ==
    /\ vpc = "off"
    /\ ViewerMayRun
    /\ IF fs["level_csv"].exists /\ fs["cluster_csv"].exists
       THEN vpc' = "load_level" /\ page' = page
       ELSE vpc' = "stopped" /\ page' = {<<"error", 0>>}
    /\ UNCHANGED <<env, flaky, pc, conn, opened, raised, i, j, rows, values, fs, written,
                   console, run, status, fs0, df, vi, drill>>

\* level_df = load_csv(LEVEL_CSV); cluster_df = load_csv(CLUSTER_CSV)
LoadCsv(e) ==
    /\ vpc = "load_" \o e
    /\ ViewerMayRun
    /\ df' = [df EXCEPT ![PathOf(e)] = ReadCsv(fs[PathOf(e)])]
    /\ vpc' = IF ReadCsv(fs[PathOf(e)]).state = "error" THEN "crashed"
              ELSE IF e = "level" THEN "load_cluster" ELSE "overview"
    /\ UNCHANGED <<env, flaky, pc, conn, opened, raised, i, j, rows, values, fs, written,
                   console, run, status, fs0, vi, page, drill>>

\* the top summary, from the first row of level_df when there is one
Overview ==
    /\ vpc = "overview"
    /\ ViewerMayRun
    /\ LET level_df == df["level_csv"].rows
           go == IF available_levels = <<>>
                 THEN vpc' = "done" /\ vi' = 0
                 ELSE vpc' = "section" /\ vi' = 1
       IN IF level_df = <<>> THEN go /\ page' = page
          ELSE IF OverviewRaises(level_df[1])
          THEN vpc' = "crashed" /\ UNCHANGED <<vi, page>>
          ELSE go /\ page' = page \cup {<<"overview", 0>>}
    /\ UNCHANGED <<env, flaky, pc, conn, opened, raised, i, j, rows, values, fs, written,
                   console, run, status, fs0, df, drill>>

\* the loop body of "for i, level in enumerate(available_levels)": the charts,
\* the table, the posts of the selected cluster, the download button
LevelSection ==
    /\ vpc = "section"
    /\ ViewerMayRun
    /\ LET level == available_levels[vi]
           d == RowsOfLevel(df["cluster_csv"].rows, level)
           go == IF vi < Len(available_levels)
                 THEN vpc' = "section" /\ vi' = vi + 1
                 ELSE vpc' = "done" /\ vi' = 0
       IN IF TableRaises(d)
          THEN /\ vpc' = "crashed"
               /\ page' = page \cup {<<"charts", level>>}
               /\ UNCHANGED <<vi, drill>>
          ELSE \E sel \in Range(d), cause \in Causes :
                 LET posts_df == fetch_cluster_posts(level, Val(sel.cluster_id), cause)
                 IN /\ drill' = posts_df
                    /\ IF posts_df.raised
                       THEN /\ vpc' = "crashed"
                            /\ page' = page \cup {<<"charts", level>>, <<"table", level>>}
                            /\ vi' = vi
                       ELSE /\ go
                            /\ page' = page \cup
                                 {<<"charts", level>>, <<"table", level>>,
                                  IF posts_df.result = "empty"
                                  THEN <<"info", level>> ELSE <<"posts", level>>,
                                  <<"download", level>>}
    /\ UNCHANGED <<env, flaky, pc, conn, opened, raised, i, j, rows, values, fs, written,
                   console, run, status, fs0, df>>

----------------------------------------------------------------------------
(* Specifications *)

LevelConfigs == UNION {[1..m -> LevelValues] : m \in 0..MaxLevels}

InitRun ==
    /\ pc = "start" /\ conn = "none" /\ opened = 0 /\ raised = "none"
    /\ i = 0 /\ j = 0 /\ rows = <<>> /\ values = <<>> /\ written = 0
    /\ console = <<>> /\ run = 1 /\ status = <<>>
    /\ fs0 = fs
    /\ vpc = "off"
    /\ df = [p \in Paths |-> NotLoaded]
    /\ vi = 0
    /\ page = {}
    /\ drill = NoDrill

\* any schema, an unreachable or failing data source, little data
Init ==
    /\ table \in Tables(MaxPosts - 1, 1)
    /\ columns \in {c \in SUBSET AllColumns :
                      \A l \in LevelValues : NameCol(l) \in c => IdCol(l) \in c}
    /\ levels \in LevelConfigs
    /\ classification_filter = Null
    /\ reachable \in BOOLEAN
    /\ flaky \in BOOLEAN
    /\ concurrent = FALSE
    /\ refilter = FALSE
    /\ fs \in {NoFiles, OldFiles}
    /\ InitRun

Next ==
    \/ Connect
    \/ TopSummary
    \/ Summarize
    \/ LevelQuery
    \/ OpenFile("level")
    \/ WriteRow("level")
    \/ Flush("level")
    \/ CloseFile("level")
    \/ ClusterQuery
    \/ OpenFile("cluster")
    \/ WriteRow("cluster")
    \/ Flush("cluster")
    \/ CloseFile("cluster")
    \/ ClassificationValuesStep
    \/ Breakdown
    \/ Finally
    \/ Rerun
    \/ ViewerStart
    \/ LoadCsv("level")
    \/ LoadCsv("cluster")
    \/ Overview
    \/ LevelSection

Spec == Init /\ [][Next]_vars

\* a healthy data source and the full schema (with or without the name
\* columns), every table of at most MaxPosts rows over the kinds of post
InitData ==
    /\ table \in Tables(MaxPosts, Len(PostKinds)) \cup {ExampleTable}
    /\ columns \in {AllColumns, AllColumns \ {NameCol(l) : l \in LevelValues}}
    /\ levels \in LevelConfigs
    /\ classification_filter = Null
    /\ reachable = TRUE
    /\ flaky = FALSE
    /\ concurrent = FALSE
    /\ refilter = FALSE
    /\ fs = OldFiles
    /\ InitRun

SpecData == InitData /\ [][Next]_vars

\* the Viewer started while the Aggregator runs
InitConc ==
    /\ table \in Tables(MaxPosts - 1, 1)
    /\ columns = AllColumns
    /\ levels \in LevelConfigs
    /\ classification_filter \in {Null, Some("EA_META")}
    /\ reachable = TRUE
    /\ flaky = FALSE
    /\ concurrent = TRUE
    /\ refilter = FALSE
    /\ fs \in {NoFiles, OldFiles}
    /\ InitRun

SpecConc == InitConc /\ [][Next]_vars

\* a healthy data source and the full schema, with EA_CLASSIFICATION_FILTER
\* set to another value for each run
InitFilter ==
    /\ table \in Tables(MaxPosts, 4)
    /\ columns = AllColumns
    /\ levels \in LevelConfigs
    /\ classification_filter \in Filters
    /\ reachable = TRUE
    /\ flaky = FALSE
    /\ concurrent = FALSE
    /\ refilter = TRUE
    /\ fs = OldFiles
    /\ InitRun

SpecFilter == InitFilter /\ [][Next]_vars

----------------------------------------------------------------------------
(* Properties of the artifacts *)

LevelRows == fs["level_csv"].rows
ClusterRows == fs["cluster_csv"].rows


RECURSIVE SumPostCount(_)
SumPostCount(rs) ==
    IF rs = <<>> THEN 0 ELSE Val(Head(rs).post_count) + SumPostCount(Tail(rs))

LastStatus == status[Len(status)]

\* the current run has ended with exit status 0
RunSucceeded == pc = "exit" /\ LastStatus = "ok"

\* the posts whose level-L cluster id is c
PostsOf(level, c) == SelectSeq(table, LAMBDA p : p.cid[level] = Some(c))

ClusterIds == {1, 2}

\* C1: after a successful run, for every level that has a row in the
\* cluster-summary artifact, the post_count of that level's cluster-summary
\* rows sum to the post_count of the level-summary row of the level.
C1_ClusterCountsSumToLevelCount ==
    RunSucceeded =>
        \A level \in LevelValues :
            RowsOfLevel(ClusterRows, level) # <<>> =>
                /\ RowsOfLevel(LevelRows, level) # <<>>
                /\ \A r \in Range(RowsOfLevel(LevelRows, level)) :
                     Val(r.post_count) = SumPostCount(RowsOfLevel(ClusterRows, level))

\* meta_posts + proper_posts <= post_count, all three being counts
CountsBounded(r) ==
    /\ r.post_count # Null /\ r.meta_posts # Null /\ r.proper_posts # Null
    /\ Val(r.meta_posts) + Val(r.proper_posts) <= Val(r.post_count)

\* C2: every row of the level-summary artifact and every row of the
\* cluster-summary artifact has meta_posts + proper_posts <= post_count.
C2_ClassifiedCountsBounded ==
    /\ \A r \in Range(LevelRows) : CountsBounded(r)
    /\ \A r \in Range(ClusterRows) : CountsBounded(r)

\* C3: no two rows of the cluster-summary artifact have the same level and
\* the same cluster_id.
C3_OneRowPerLevelAndCluster ==
    \A a, b \in 1..Len(ClusterRows) :
        a # b => ~(/\ ClusterRows[a].level = ClusterRows[b].level
                   /\ ClusterRows[a].cluster_id = ClusterRows[b].cluster_id)

\* C4: in the cluster-summary artifact the rows of one level are in
\* post_count descending order, rows with equal post_count in cluster_id
\* ascending order.
C4_LevelRowsSorted ==
    \A level \in LevelValues :
        LET rs == RowsOfLevel(ClusterRows, level)
        IN \A x \in 1..(Len(rs) - 1) : Before(rs[x], rs[x + 1])

\* C5: after a successful run, for every configured level with a cluster-id
\* column and every cluster id c, the cluster-summary row for (level, c) has
\* post_count, meta_posts, proper_posts and avg_base_score computed over the
\* posts whose cluster id at the level is c, and every cluster with a post
\* has a row.
C5_RowAggregatesItsCluster ==
    RunSucceeded =>
        \A level \in Range(levels) : \A c \in ClusterIds :
            ColumnExists(IdCol(level)) =>
                LET ps == PostsOf(level, c)
                    rs == SelectSeq(RowsOfLevel(ClusterRows, level),
                                    LAMBDA r : r.cluster_id = Some(c))
                IN /\ (ps # <<>>) = (rs # <<>>)
                   /\ \A r \in Range(rs) :
                        /\ r.post_count = Some(Len(ps))
                        /\ r.meta_posts =
                             Some(Len(SelectSeq(ps, LAMBDA p : p.cls = Some("EA_META"))))
                        /\ r.proper_posts =
                             Some(Len(SelectSeq(ps, LAMBDA p : p.cls = Some("EA_PROPER"))))
                        /\ r.avg_base_score = SqlAvg(ps, "base")

\* C6: when the data source is unreachable the run ends with an error exit
\* status before anything else happens, and both artifact files are as they
\* were before the run: none is created, truncated or overwritten.
C6_UnreachableSourceWritesNothing ==
    ~reachable =>
        /\ pc \in {"start", "exit"}
        /\ fs = fs0
        /\ conn = "none" /\ opened = 0 /\ console = <<>>
        /\ pc = "exit" => LastStatus = "error"

C6_Witness == ~reachable /\ pc = "exit" /\ fs = OldFiles /\ LastStatus = "error"

MissingLevels == {l \in Range(levels) : ~ColumnExists(IdCol(l))}
PresentLevels == Range(levels) \ MissingLevels

C8_ReaderSeesWholeArtifact ==
    /\ \A e \in {"level", "cluster"} :
         pc = e \o "_write" => fs[PathOf(e)] \in {fs0[PathOf(e)], File(TRUE, rows)}
    /\ \A p \in Paths : df[p].state # "error"

\* C9: a run opens at most one connection; a run that connected has opened
\* exactly one and has closed it when the process exits, whether or not an
\* exception left the try block.
C9_ConnectionClosedOnEveryExit ==
    /\ opened <= 1
    /\ pc = "exit" => conn # "open"
    /\ (pc = "exit" /\ reachable) => (opened = 1 /\ conn = "closed")

C9_Witness == pc = "exit" /\ raised = "fault" /\ opened = 1 /\ conn = "closed"

\* C10: a second successful run against the same table and configuration
\* leaves both artifacts as the first successful run left them.
C10_RerunLeavesArtifactsUnchanged ==
    (/\ pc = "exit" /\ run >= 2
     /\ status[run - 1] = "ok" /\ status[run] = "ok") => fs = fs0

----------------------------------------------------------------------------
(* Properties of the Viewer *)

\* whether the Viewer has read both artifacts into frames
Loaded == \A p \in Paths : df[p].state = "frame"

\* C11: when the Viewer has started and one of the two artifact paths does
\* not exist, the Viewer has stopped with the error message as the only thing
\* on the page, and has loaded neither CSV.
C11_MissingArtifactBlocks ==
    (vpc # "off" /\ ~concurrent /\ \E p \in Paths : ~fs[p].exists) =>
        /\ vpc = "stopped"
        /\ page = {<<"error", 0>>}
        /\ \A p \in Paths : df[p] = NotLoaded

C11_Witness ==
    /\ vpc = "stopped"
    /\ fs["level_csv"].exists /\ ~fs["cluster_csv"].exists
    /\ page = {<<"error", 0>>}

\* C12: a Viewer that has loaded a level-summary CSV with no data rows stops
\* with the blocking error at the overview: it renders no level section and
\* does not run to the end of the page.
C12_EmptyLevelSummaryBlocks ==
    (df["level_csv"].state = "frame" /\ df["level_csv"].rows = <<>>) =>
        /\ vpc \in {"load_cluster", "overview", "stopped"}
        /\ vpc = "stopped" => page = {<<"error", 0>>}

\* C13: a call of fetch_cluster_posts never raises and leaves no connection
\* open; when there is no URL or no driver, or connecting or the query
\* fails, its result is empty, and the Viewer has shown the informational
\* message and gone on to the download button of that level.
C13_FetchNeverRaises ==
    drill # NoDrill =>
        /\ ~drill.raised
        /\ drill.conn # "open"
        /\ <<"download", drill.level>> \in page
        /\ drill.cause # "ok" =>
              /\ drill.result = "empty"
              /\ <<"info", drill.level>> \in page
              /\ <<"posts", drill.level>> \notin page

C13_Witness ==
    /\ drill.cause = "query_fails"
    /\ drill.conn = "closed"
    /\ drill.result = "empty"
    /\ <<"info", drill.level>> \in page
    /\ <<"download", drill.level>> \in page

\* C14: in the level-summary artifact of a successful run all rows have the
\* same post_count, the same meta_posts and the same proper_posts.
C14_TotalsSameAcrossLevels ==
    RunSucceeded =>
        \A a, b \in Range(LevelRows) :
            /\ a.post_count = b.post_count
            /\ a.meta_posts = b.meta_posts
            /\ a.proper_posts = b.proper_posts

\* C15: once both artifacts are loaded, no value in a numeric column ends
\* the Viewer's rendering: the Viewer never stops on an exception.
C15_BlankNumberNeverStopsViewer ==
    Loaded => vpc # "crashed"

============================================================================
